---- MODULE Spec2Model ----
(***************************************************************************)
(* NETLOGON challenge/response client of libmlsvc (netr_auth.c).           *)
(*                                                                         *)
(* The module models netr_global_info, the netlogon_auth call sequence     *)
(* (open, identity lookup, client challenge loop, ServerReqChallenge,      *)
(* session key and credential derivation, ServerAuthenticate2, close),     *)
(* netr_open_secure, netlogon_init_global and the derivation functions.    *)
(* Byte buffers are sequences of 0..255 (1-based: buf[i+1] is C's buf[i]). *)
(* DWORDs are pairs of 16-bit halves.  The primitive hash and cipher        *)
(* routines and the configuration reader live outside netr_auth.c; they    *)
(* are modelled as deterministic byte functions with an explicit failure   *)
(* input chosen by the environment.                                        *)
(***************************************************************************)
EXTENDS Integers, Sequences, FiniteSets, TLC

VARIABLES
    netr_global_info,   \* the shared netr_info_t
    auth_verify_resp,   \* netr_ssp_ctx.auth_verify_resp
    auth_context_id,    \* global auth_context_id
    started,            \* TRUE once smbd has begun issuing NETLOGON calls
    enabled,            \* threads that may call into this file
    pc,                 \* per thread: position inside netlogon_auth
    l_flags,            \* per thread: the flags argument of netlogon_auth
    l_rc,               \* per thread: netlogon_auth's local rc
    l_status,           \* per thread: value returned by netlogon_auth
    netr_handle,        \* per thread: state of the local mlsvc_handle_t
    arg,                \* per thread: RPC argument struct in flight
    hist,               \* per thread: observation record of the current attempt
    nego_hist,          \* observation of proposals, responses and binds
    attempts,           \* number of netlogon_auth calls made so far
    probe               \* input/output cell of the function-level specifications

vars == << netr_global_info, auth_verify_resp, auth_context_id,
           started, enabled, pc, l_flags, l_rc, l_status, netr_handle, arg, hist,
           nego_hist, attempts, probe >>

-----------------------------------------------------------------------------
(* Bounds of the model *)

\* netlogon_auth calls per behaviour
MaxAttempts == 2
\* netr_open_secure stops once auth_context_id exceeds this
MaxCtxId == 1
\* byte values 0..MaxByte in the function-level input buffers
MaxByte == 2
\* bytes of netr_info->password the model keeps (its declared size comes
\* from a header outside this file)
MaxPasswordLen == 16
\* netr_server_password_set calls per behaviour
MaxPasswordSets == 1

-----------------------------------------------------------------------------
(* Program constants *)

NETR_SESSKEY_ZEROBUF_SZ == 4
NETR_DESKEY_LEN == 7
NETR_CRED_DATA_SZ == 8
NETR_SESSKEY128_SZ == 16
NETR_SESSKEY64_SZ == 8
NETR_OWF_PASSWORD_SZ == 16
SMBAUTH_HASH_SZ == 16
MD4HASH_SZ == 32
MITIGATION_BYTES == 5

Threads == {1, 2}

\* The buffer of n bytes whose byte i is f[i], as a sequence
Tup(f, n) ==
    CASE n = 0 -> << >>
      [] n = 1 -> << f[1] >>
      [] n = 4 -> << f[1], f[2], f[3], f[4] >>
      [] n = 7 -> << f[1], f[2], f[3], f[4], f[5], f[6], f[7] >>
      [] n = 8 -> << f[1], f[2], f[3], f[4], f[5], f[6], f[7], f[8] >>
      [] n = 16 -> << f[1], f[2], f[3], f[4], f[5], f[6], f[7], f[8],
                      f[9], f[10], f[11], f[12], f[13], f[14], f[15], f[16] >>
      [] OTHER -> SubSeq(<< f[1], f[2], f[3], f[4], f[5], f[6], f[7], f[8] >>
                         \o [i \in 1..(n - 8) |-> f[8 + i]], 1, n)

Zeros(n) == Tup([i \in 1..n |-> 0], n)

\* A DWORD is held as two 16-bit halves [lo, hi]: its value is
\* lo + 65536 * hi, below 2^32 (TLC's integers stop short of 2^32)
DW(n) == [lo |-> n % 65536, hi |-> (n \div 65536) % 65536]

\* LE_OUT32: the four bytes of a DWORD, least significant first
LE_OUT32(w) == << w.lo % 256, w.lo \div 256, w.hi % 256, w.hi \div 256 >>

\* LE_IN32: the DWORD held in four bytes at C offset off of buf
LE_IN32(buf, off) == [lo |-> buf[off + 1] + 256 * buf[off + 2],
                      hi |-> buf[off + 3] + 256 * buf[off + 4]]

\* DWORD addition: the carry out of the low half enters the high half, the
\* carry out of the high half is lost
Add32(a, b) ==
    LET lo == a.lo + b.lo
    IN  [lo |-> lo % 65536, hi |-> (a.hi + b.hi + (lo \div 65536)) % 65536]

\* memcmp over equal-length buffers: 0, or the sign of the difference at
\* the first differing byte
memcmp(a, b) ==
    IF a = b THEN 0
    ELSE LET k == CHOOSE i \in 1..Len(a) :
                    a[i] # b[i] /\ \A j \in 1..(i - 1) : a[j] = b[j]
         IN IF a[k] < b[k] THEN -1 ELSE 1

-----------------------------------------------------------------------------
(* passes_dc_mitigation *)

RECURSIVE mitigation_inner(_, _, _)
\* the inner for loop: the value of j when it ends
mitigation_inner(buf, i, j) ==
    IF j < MITIGATION_BYTES
    THEN IF i # j /\ buf[i + 1] = buf[j + 1] THEN j
         ELSE mitigation_inner(buf, i, j + 1)
    ELSE j

RECURSIVE mitigation_inner_later(_, _, _)
\* variant that compares byte i with the bytes after it only
mitigation_inner_later(buf, i, j) ==
    IF j < MITIGATION_BYTES
    THEN IF i < j /\ buf[i + 1] = buf[j + 1] THEN j
         ELSE mitigation_inner_later(buf, i, j + 1)
    ELSE j

RECURSIVE mitigation_outer(_, _)
\* the outer for loop from index i on
mitigation_outer(buf, i) ==
    IF i < MITIGATION_BYTES
    THEN IF mitigation_inner(buf, i, 0) = MITIGATION_BYTES THEN TRUE
         ELSE mitigation_outer(buf, i + 1)
    ELSE FALSE

RECURSIVE mitigation_outer_later(_, _)
mitigation_outer_later(buf, i) ==
    IF i < MITIGATION_BYTES
    THEN IF mitigation_inner_later(buf, i, 0) = MITIGATION_BYTES THEN TRUE
         ELSE mitigation_outer_later(buf, i + 1)
    ELSE FALSE

passes_dc_mitigation_later(buf) == mitigation_outer_later(buf, 0)

passes_dc_mitigation(buf) == mitigation_outer(buf, 0)

-----------------------------------------------------------------------------
(* Collaborators outside netr_auth.c.  Each is a deterministic function of *)
(* its inputs; whether a call fails is an input of the caller's model.     *)

\* Slice of a buffer: n bytes from C offset off
Slice(buf, off, n) == Tup([i \in 1..n |-> buf[off + i]], n)

\* smb_auth_DES(out, 8, key, 7, in, 8): an 8-byte block keyed by 7 bytes
smb_auth_DES(key, in) ==
    Tup([i \in 1..8 |->
            (in[(i % 8) + 1] + key[((i - 1) % NETR_DESKEY_LEN) + 1] + i) % 256], 8)

\* smb_auth_ntlm_hash(password, hash): SMBAUTH_HASH_SZ bytes
smb_auth_ntlm_hash(password) ==
    Tup([i \in 1..SMBAUTH_HASH_SZ |-> (3 * password[i] + 7 * i) % 256],
        SMBAUTH_HASH_SZ)

\* The MD5 digest session of netr_gen_skey128 over zerobuf, client
\* challenge and server challenge
md5_digest(zerobuf, cc, sc) ==
    Tup([i \in 1..16 |-> (zerobuf[((i - 1) % NETR_SESSKEY_ZEROBUF_SZ) + 1]
                          + cc[((i - 1) % 8) + 1] + 2 * sc[((i + 2) % 8) + 1]
                          + i) % 256], 16)

\* smb_auth_hmac_md5(data, len, key, keylen, out): 16 bytes
smb_auth_hmac_md5(data, key) ==
    Tup([i \in 1..16 |-> (data[i] + 5 * key[i] + 1) % 256], 16)

\* smb_config_getstr(SMB_CI_MACHINE_PASSWD, buf, size) on a zeroed buffer:
\* the stored string is copied on success, nothing is written on failure
smb_config_getstr(cfg) ==
    IF cfg.rc = "SMBD_SMF_OK" THEN cfg.value ELSE Zeros(MaxPasswordLen)

\* The machine password held by the configuration store
MachinePasswd == Tup([i \in 1..MaxPasswordLen |-> IF i <= 3 THEN 80 + i ELSE 0],
                     MaxPasswordLen)

\* What smb_config_getstr can report for SMB_CI_MACHINE_PASSWD
CfgResults ==
    { [rc |-> "SMBD_SMF_OK", value |-> MachinePasswd],
      [rc |-> "SMBD_SMF_OK", value |-> Zeros(MaxPasswordLen)],
      [rc |-> "SMBD_SMF_SYSTEM_ERR", value |-> Zeros(MaxPasswordLen)] }

-----------------------------------------------------------------------------
(* netr_gen_skey128 *)

Skey128Fail == { "none", "ntlm", "mechsession", "digestinit", "update_zero",
                 "update_client", "update_server", "final", "hmac" }

DigestFail == { "digestinit", "update_zero", "update_client", "update_server",
                "final" }

\* The operators below return [rc, info, hash]: the function's return
\* value, the netr_info_t it leaves, and its local hash buffer at return.

\* rc when a C_Digest* call fails and control jumps to cleanup: rc still
\* holds the result of smb_auth_ntlm_hash
skey128_digest_rc(rc_ntlm) == rc_ntlm

\* a buffer as a variant of errout/out leaves it: not wiped
skey_wipe_skipped(buf) == buf

\* explicit_bzero of a buffer at the errout/out labels
skey_wipe(buf) == Zeros(Len(buf))

\* the early return: the configuration read failed or the password is empty
skey_early_return(info, hash) ==
    [rc |-> "SMBAUTH_FAILURE", info |-> info, hash |-> hash]

\* errout: / out: wipe the password and the hash, return rc
skey_errout(r, info, hash) ==
    [rc |-> r, info |-> [info EXCEPT !.password = skey_wipe(@)],
     hash |-> skey_wipe(hash)]

\* from SUNW_C_GetMechSession to the cleanup label; rc_ntlm is the value
\* smb_auth_ntlm_hash left in rc
skey128_digest(info, ntlmhash, rc_ntlm, fail) ==
    CASE fail = "mechsession" -> skey_errout("SMBAUTH_FAILURE", info, ntlmhash)
      [] fail \in DigestFail ->
            skey_errout(skey128_digest_rc(rc_ntlm), info, ntlmhash)
      [] fail = "hmac" ->
            skey_errout("SMBAUTH_FAILURE",
                        [info EXCEPT !.session_key.len = NETR_SESSKEY128_SZ],
                        ntlmhash)
      [] OTHER ->
            skey_errout("SMBAUTH_SUCCESS",
                        [info EXCEPT
                            !.session_key.key =
                                smb_auth_hmac_md5(
                                    md5_digest(Zeros(NETR_SESSKEY_ZEROBUF_SZ),
                                               info.client_challenge,
                                               info.server_challenge),
                                    ntlmhash),
                            !.session_key.len = NETR_SESSKEY128_SZ],
                        ntlmhash)

\* from the test of smb_config_getstr's result on; info holds the password
\* that was read
skey128_after_getstr(info, cfg, fail) ==
    IF cfg.rc # "SMBD_SMF_OK" \/ info.password[1] = 0
    THEN skey_early_return(info, Zeros(SMBAUTH_HASH_SZ))
    ELSE IF fail = "ntlm"
    THEN [rc |-> "SMBAUTH_FAILURE",
          info |-> [info EXCEPT !.password = Zeros(MaxPasswordLen)],
          hash |-> Zeros(SMBAUTH_HASH_SZ)]
    ELSE skey128_digest(info, smb_auth_ntlm_hash(info.password),
                        "SMBAUTH_SUCCESS", fail)

netr_gen_skey128(info, cfg, fail) ==
    skey128_after_getstr([info EXCEPT !.password = smb_config_getstr(cfg)],
                         cfg, fail)

-----------------------------------------------------------------------------
(* netr_gen_skey64 *)

Skey64Fail == { "none", "ntlm", "des1", "des2" }

\* data[] and le_data[]: the word-wise sum of the two challenges
skey64_le_data(cc, sc) ==
    LE_OUT32(Add32(LE_IN32(cc, 0), LE_IN32(sc, 0)))
    \o LE_OUT32(Add32(LE_IN32(cc, 4), LE_IN32(sc, 4)))

\* the two smb_auth_DES passes and the out label
skey64_des(info, md4hash, fail) ==
    CASE fail = "des1" -> skey_errout("SMBAUTH_FAILURE", info, md4hash)
      [] fail = "des2" ->
            skey_errout("SMBAUTH_FAILURE",
                        [info EXCEPT !.session_key.len = NETR_SESSKEY64_SZ],
                        md4hash)
      [] OTHER ->
            skey_errout("SMBAUTH_SUCCESS",
                        [info EXCEPT
                            !.session_key.key =
                                smb_auth_DES(
                                    Slice(md4hash, 9, NETR_DESKEY_LEN),
                                    smb_auth_DES(
                                        Slice(md4hash, 0, NETR_DESKEY_LEN),
                                        skey64_le_data(info.client_challenge,
                                                       info.server_challenge)))
                                \o Slice(@, NETR_SESSKEY64_SZ,
                                         NETR_SESSKEY128_SZ - NETR_SESSKEY64_SZ),
                            !.session_key.len = NETR_SESSKEY64_SZ],
                        md4hash)

skey64_after_getstr(info, cfg, fail) ==
    IF cfg.rc # "SMBD_SMF_OK" \/ info.password[1] = 0
    THEN skey_early_return(info, Zeros(MD4HASH_SZ))
    ELSE IF fail = "ntlm"
    THEN skey_errout("SMBAUTH_FAILURE", info, Zeros(MD4HASH_SZ))
    ELSE skey64_des(info,
                    smb_auth_ntlm_hash(info.password)
                    \o Zeros(MD4HASH_SZ - SMBAUTH_HASH_SZ),
                    fail)

netr_gen_skey64(info, cfg, fail) ==
    skey64_after_getstr([info EXCEPT !.password = smb_config_getstr(cfg)],
                        cfg, fail)

-----------------------------------------------------------------------------
(* netr_gen_credentials *)

CredFail == { "none", "des1", "des2" }

\* variant in which the carry out of the first word enters the second
cred_input_carry(challenge, timestamp) ==
    LE_OUT32(Add32(LE_IN32(challenge, 0), timestamp))
    \o LE_OUT32(Add32(LE_IN32(challenge, 4),
                      DW((LE_IN32(challenge, 0).hi + timestamp.hi
                          + ((LE_IN32(challenge, 0).lo + timestamp.lo)
                             \div 65536)) \div 65536)))

\* the 8-byte cipher input built from the challenge and the timestamp
cred_input(challenge, timestamp) ==
    LE_OUT32(Add32(LE_IN32(challenge, 0), timestamp))
    \o LE_OUT32(LE_IN32(challenge, 4))

\* the end of the function: out is out_cred->data, rc2 the result of the
\* second smb_auth_DES
cred_return(out, rc2, retry) ==
    IF retry /\ ~passes_dc_mitigation(out)
    THEN [rc |-> "SMBAUTH_RETRY", cred |-> out]
    ELSE [rc |-> rc2, cred |-> out]

\* the number of smb_auth_DES calls of one invocation
cred_des_calls(fail) == IF fail = "des1" THEN 1 ELSE 2

\* Result: [rc, cred]; old is the content of out_cred before the call
netr_gen_credentials(session_key, challenge, timestamp, old, retry, fail) ==
    CASE fail = "des1" -> [rc |-> "SMBAUTH_FAILURE", cred |-> old]
      [] fail = "des2" -> cred_return(old, "SMBAUTH_FAILURE", retry)
      [] OTHER ->
            cred_return(
                smb_auth_DES(Slice(session_key, NETR_DESKEY_LEN, NETR_DESKEY_LEN),
                             smb_auth_DES(Slice(session_key, 0, NETR_DESKEY_LEN),
                                          cred_input(challenge, timestamp))),
                "SMBAUTH_SUCCESS", retry)

-----------------------------------------------------------------------------
(* State of netr_auth.c *)

NETR_FLG_VALID == "NETR_FLG_VALID"
NETR_FLG_INIT == "NETR_FLG_INIT"
NETR_NEGO_BASE_FLAGS == "NETR_NEGO_BASE_FLAGS"
NETR_NEGO_STRONGKEY_FLAG == "NETR_NEGO_STRONGKEY_FLAG"
NETR_NEGO_SECURE_RPC_FLAG == "NETR_NEGO_SECURE_RPC_FLAG"
NETR_CFG_DISABLE_SECURE_RPC == "NETR_CFG_DISABLE_SECURE_RPC"
NETR_CFG_DISABLE_RESP_VERIF == "NETR_CFG_DISABLE_RESP_VERIF"
NETR_CFG_DISABLE_SAMLOGONEX == "NETR_CFG_DISABLE_SAMLOGONEX"

\* Bit masks are sets of flag names: | is \cup, & is \cap, &~ is \
netr_server_auth2_flags ==
    { NETR_NEGO_BASE_FLAGS, NETR_NEGO_STRONGKEY_FLAG, NETR_NEGO_SECURE_RPC_FLAG }

\* Values of the DWORD flags argument of netlogon_auth
FlagArgs == { {}, {NETR_FLG_INIT}, {NETR_FLG_VALID} }

\* Values of the uint32_t flags argument of netlogon_init_global
CfgFlagArgs == { {}, {NETR_CFG_DISABLE_SECURE_RPC},
                 {NETR_CFG_DISABLE_RESP_VERIF, NETR_CFG_DISABLE_SAMLOGONEX} }

\* Status values ndr_rpc_bind can hand back
BindStatus == { "NT_STATUS_SUCCESS", "NT_STATUS_BAD_NETWORK_PATH" }

\* The zero-initialised global, with the two initialisers of its definition
InitInfo ==
    [ flags |-> {},
      session_key |-> [key |-> Zeros(NETR_SESSKEY128_SZ), len |-> 0],
      client_challenge |-> Zeros(NETR_CRED_DATA_SZ),
      server_challenge |-> Zeros(NETR_CRED_DATA_SZ),
      client_credential |-> Zeros(NETR_CRED_DATA_SZ),
      server_credential |-> Zeros(NETR_CRED_DATA_SZ),
      nego_flags |-> {},
      password |-> Zeros(MaxPasswordLen),
      hostname |-> "", server |-> "", nb_domain |-> "", fqdn_domain |-> "",
      use_secure_rpc |-> TRUE,
      use_logon_ex |-> TRUE ]

\* Observation record of one netlogon_auth attempt
FreshHist ==
    [ opened |-> FALSE,       \* netr_open succeeded
      closes |-> 0,           \* netr_close calls
      calls |-> 0,            \* ndr_rpc_call calls
      releases |-> 0,         \* ndr_rpc_release calls
      calls_ok |-> 0,         \* ndr_rpc_call calls that returned 0
      call_unbound |-> FALSE, \* an ndr_rpc_call was made on a handle not bound
      prior_valid |-> FALSE,  \* NETR_FLG_VALID was set when the attempt began
      challenge_sent |-> FALSE,   \* a ServerReqChallenge request went out
      challenge_ok |-> FALSE, \* its response had status 0 and was stored
      recv_challenge |-> Zeros(NETR_CRED_DATA_SZ), \* the challenge it carried
      sent_challenge |-> Zeros(NETR_CRED_DATA_SZ), \* the challenge it carried
      seqnum_updates |-> 0,   \* smb_update_netlogon_seqnum calls
      key_derived |-> FALSE,  \* a key derivation call wrote session_key.key
      auth2 |-> "none" ]      \* outcome of the ServerAuthenticate2 exchange

InitNegoHist ==
    [ proposed |-> {},        \* negotiate_flags of the last request sent
      has_resp |-> FALSE,     \* a status-0 ServerAuthenticate2 response arrived
      resp |-> {},            \* negotiate_flags of the last such response
      binds |-> {} ]          \* kinds of bind netr_open_secure made since then

NoArg == [ op |-> "none" ]

InitCommon ==
    /\ netr_global_info = InitInfo
    /\ auth_verify_resp = TRUE
    /\ auth_context_id = 1
    /\ started = FALSE
    /\ pc = [t \in Threads |-> "idle"]
    /\ l_flags = [t \in Threads |-> {}]
    /\ l_rc = [t \in Threads |-> 0]
    /\ l_status = [t \in Threads |-> "NT_STATUS_SUCCESS"]
    /\ netr_handle = [t \in Threads |-> "unbound"]
    /\ arg = [t \in Threads |-> NoArg]
    /\ hist = [t \in Threads |-> FreshHist]
    /\ nego_hist = InitNegoHist
    /\ attempts = 0

\* What a function-level call hands back: the return value, the
\* netr_info_t it leaves, its local hash buffer at return, and the
\* boolean result of passes_dc_mitigation
NoOut ==
    [ rc |-> "none", info |-> InitInfo, hash |-> << >>, pass |-> FALSE,
      le_data |-> << >>,      \* the input handed to the first smb_auth_DES
      des_calls |-> 0,        \* the number of smb_auth_DES calls made
      challenge |-> << >>,    \* the caller's challenge buffer afterwards
      rpc_calls |-> 0,        \* ndr_rpc_call calls of the function
      rpc_ok |-> 0,           \* those that returned 0
      rpc_releases |-> 0 ]    \* ndr_rpc_release calls of the function

\* The probe cell when no function-level call is being examined
NoProbe ==
    [ kind |-> "none", buf |-> Zeros(NETR_CRED_DATA_SZ), info |-> InitInfo,
      cfg |-> [rc |-> "SMBD_SMF_OK", value |-> MachinePasswd], fail |-> "none",
      n |-> 0, timestamp |-> DW(0), retry |-> FALSE,
      done |-> FALSE, out |-> NoOut ]

Init ==
    /\ InitCommon
    /\ enabled = {1}
    /\ probe = NoProbe

-----------------------------------------------------------------------------
(* netlogon_init_global *)

NetlogonInitGlobal(flags) ==
    /\ ~started
    /\ netr_global_info' =
          [netr_global_info EXCEPT
              !.use_secure_rpc = (NETR_CFG_DISABLE_SECURE_RPC \notin flags),
              !.use_logon_ex = (NETR_CFG_DISABLE_SAMLOGONEX \notin flags)]
    /\ auth_verify_resp' = (NETR_CFG_DISABLE_RESP_VERIF \notin flags)
    /\ UNCHANGED << auth_context_id, started, enabled, pc,
                    l_flags, l_rc, l_status, netr_handle, arg, hist, nego_hist, attempts, probe >>

-----------------------------------------------------------------------------
(* netlogon_auth: netr_open and the early return *)

NetlogonAuthOpen(t, flags, st) ==
    /\ t \in enabled
    /\ pc[t] \in {"idle", "ret"}
    /\ attempts < MaxAttempts
    /\ attempts' = attempts + 1
    /\ started' = TRUE
    /\ l_flags' = [l_flags EXCEPT ![t] = flags]
    /\ l_rc' = [l_rc EXCEPT ![t] = 0]
    /\ arg' = [arg EXCEPT ![t] = NoArg]
    /\ hist' = [hist EXCEPT ![t] =
                   [FreshHist EXCEPT
                       !.opened = (st = "NT_STATUS_SUCCESS"),
                       !.prior_valid = (NETR_FLG_VALID \in netr_global_info.flags)]]
    /\ IF st # "NT_STATUS_SUCCESS"
       THEN /\ l_status' = [l_status EXCEPT ![t] = st]
            /\ pc' = [pc EXCEPT ![t] = "ret"]
            /\ netr_handle' = [netr_handle EXCEPT ![t] = "unbound"]
       ELSE /\ l_status' = l_status
            /\ pc' = [pc EXCEPT ![t] = "setup"]
            /\ netr_handle' = [netr_handle EXCEPT ![t] = "bound"]
    /\ UNCHANGED << netr_global_info, auth_verify_resp,
                    auth_context_id, enabled, nego_hist, probe >>

-----------------------------------------------------------------------------
(* netlogon_auth: reset of the shared state and the identity lookups *)

LookupFail == { "none", "smb_getnetbiosname", "smb_getdomainname",
                "smb_getfqdomainname" }

\* where a failed lookup continues: a variant that returns at once
lookup_fail_pc_return == "ret"

\* where a failed lookup continues: goto errout
lookup_fail_pc == "errout"

\* netr_info->flags = flags
auth_reset_flags(old, flags) == flags

\* bzero(&netr_info->session_key, ...); netr_info->flags = flags
netlogon_auth_reset(info, flags) ==
    [info EXCEPT !.session_key = [key |-> Zeros(NETR_SESSKEY128_SZ), len |-> 0],
                 !.flags = auth_reset_flags(@, flags)]

\* the lookups up to the first one that fails
netlogon_auth_names(info, lf) ==
    LET i1 == IF lf = "smb_getnetbiosname" THEN info
              ELSE [info EXCEPT !.hostname = "HOST", !.server = "\\\\DC"]
        i2 == IF lf \in {"smb_getnetbiosname", "smb_getdomainname"} THEN i1
              ELSE [i1 EXCEPT !.nb_domain = "DOM"]
        i3 == IF lf # "none" THEN i2
              ELSE [i2 EXCEPT !.fqdn_domain = "dom.example.com"]
    IN  i3

NetlogonAuthSetup(t, lf) ==
    /\ pc[t] = "setup"
    /\ netr_global_info' =
          netlogon_auth_names(netlogon_auth_reset(netr_global_info, l_flags[t]), lf)
    /\ IF lf # "none"
       THEN /\ l_rc' = [l_rc EXCEPT ![t] = -1]
            /\ pc' = [pc EXCEPT ![t] = lookup_fail_pc]
            /\ l_status' = IF lookup_fail_pc = "ret"
                           THEN [l_status EXCEPT ![t] = "NT_STATUS_UNSUCCESSFUL"]
                           ELSE l_status
       ELSE /\ l_rc' = [l_rc EXCEPT ![t] = 0]
            /\ pc' = [pc EXCEPT ![t] = "challenge"]
            /\ l_status' = l_status
    /\ UNCHANGED << auth_verify_resp, auth_context_id, started,
                    enabled, l_flags, netr_handle, arg, hist, nego_hist, attempts, probe >>

-----------------------------------------------------------------------------
(* netlogon_auth: one pass of the client challenge loop *)

\* Values arc4random() may return
RandWords == { DW(0), DW(1) }

\* a variant of the loop test that never retries
challenge_retry_never(challenge) == FALSE

\* a variant of the loop test that retries whatever was generated
challenge_retry_always(challenge) == TRUE

\* if (!passes_dc_mitigation(...)) retry = B_TRUE
challenge_retry(challenge) == ~passes_dc_mitigation(challenge)

NetlogonAuthChallenge(t, w0, w1) ==
    /\ pc[t] = "challenge"
    /\ LET leout_rc == LE_OUT32(w0) \o LE_OUT32(w1)
       IN  /\ netr_global_info' =
                 [netr_global_info EXCEPT !.client_challenge = leout_rc]
           /\ pc' = [pc EXCEPT ![t] = IF challenge_retry(leout_rc)
                                      THEN "challenge" ELSE "req_challenge"]
    /\ UNCHANGED << auth_verify_resp, auth_context_id, started,
                    enabled, l_flags, l_rc, l_status, netr_handle, arg, hist,
                    nego_hist, attempts, probe >>

-----------------------------------------------------------------------------
(* netr_server_req_challenge *)

\* Challenges a server may return
ServerChallenges == { LE_OUT32(DW(2)) \o LE_OUT32(DW(3)) }

\* How an ndr_rpc_call can end: transport failure, or a response with a
\* status field
RpcOutcome == { "transport", "status", "ok" }

\* ndr_rpc_call goes out on the handle
RpcIssued(h, t) ==
    [h EXCEPT !.calls = @ + 1,
              !.call_unbound = @ \/ (netr_handle[t] # "bound")]

\* whether ndr_rpc_call returned 0
rpc_call_ok(outcome) == IF outcome = "transport" THEN 0 ELSE 1

\* a variant that releases only after a response with status 0
rpc_released_on_success(outcome) == IF outcome = "ok" THEN 1 ELSE 0

\* the ndr_rpc_release calls on the way out of a function whose
\* ndr_rpc_call ended with outcome: none after "return (-1)" on a failed
\* call, one on the arg.status != 0 path, one on the status 0 path
rpc_released(outcome) == IF outcome = "transport" THEN 0 ELSE 1

\* the request is built from the shared state and sent
NetrServerReqChallengeCall(t) ==
    /\ pc[t] = "req_challenge"
    /\ arg' = [arg EXCEPT ![t] =
                  [ op |-> "NETR_OPNUM_ServerReqChallenge",
                    servername |-> netr_global_info.server,
                    hostname |-> netr_global_info.hostname,
                    client_challenge |-> netr_global_info.client_challenge ]]
    /\ hist' = [hist EXCEPT ![t] =
                   [RpcIssued(@, t) EXCEPT
                       !.challenge_sent = TRUE,
                       !.sent_challenge = netr_global_info.client_challenge]]
    /\ pc' = [pc EXCEPT ![t] = "req_challenge_wait"]
    /\ UNCHANGED << netr_global_info, auth_verify_resp,
                    auth_context_id, started, enabled, l_flags, l_rc, l_status,
                    netr_handle, nego_hist, attempts, probe >>

\* a variant that reports a refused request as success
req_challenge_status_rc_ignored == 1 - 1

\* if (arg.status != 0) { ...; return (-1); }
req_challenge_status_rc == -1

\* netlogon_auth: if ((rc = netr_server_req_challenge(...)) == 0)
after_req_challenge(r) == IF r = 0 THEN "authenticate" ELSE "errout"

\* ndr_rpc_call returns; the rest of the function runs
NetrServerReqChallengeReturn(t, outcome, server_challenge) ==
    /\ pc[t] = "req_challenge_wait"
    /\ outcome # "ok" => server_challenge = Zeros(NETR_CRED_DATA_SZ)
    /\ outcome = "ok" => server_challenge \in ServerChallenges
    /\ arg' = [arg EXCEPT ![t] = NoArg]
    /\ CASE outcome = "transport" ->
              /\ l_rc' = [l_rc EXCEPT ![t] = -1]
              /\ pc' = [pc EXCEPT ![t] = after_req_challenge(-1)]
              /\ hist' = [hist EXCEPT
                             ![t].calls_ok = @ + rpc_call_ok(outcome),
                             ![t].releases = @ + rpc_released(outcome)]
              /\ UNCHANGED netr_global_info
         [] outcome = "status" ->
              /\ l_rc' = [l_rc EXCEPT ![t] = req_challenge_status_rc]
              /\ pc' = [pc EXCEPT ![t] =
                            after_req_challenge(req_challenge_status_rc)]
              /\ hist' = [hist EXCEPT
                             ![t].calls_ok = @ + rpc_call_ok(outcome),
                             ![t].releases = @ + rpc_released(outcome)]
              /\ UNCHANGED netr_global_info
         [] OTHER ->
              /\ netr_global_info' =
                    [netr_global_info EXCEPT !.server_challenge = server_challenge]
              /\ hist' = [hist EXCEPT ![t].calls_ok = @ + rpc_call_ok(outcome),
                                      ![t].releases = @ + rpc_released(outcome),
                                      ![t].challenge_ok = TRUE,
                                      ![t].recv_challenge = server_challenge]
              /\ l_rc' = [l_rc EXCEPT ![t] = 0]
              /\ pc' = [pc EXCEPT ![t] = after_req_challenge(0)]
    /\ UNCHANGED << auth_verify_resp, auth_context_id, started,
                    enabled, l_flags, l_status, netr_handle, nego_hist, attempts, probe >>

-----------------------------------------------------------------------------
(* netr_server_authenticate2 *)

\* arg.negotiate_flags of the request
auth2_negotiate_flags(info) ==
    IF ~info.use_secure_rpc
    THEN netr_server_auth2_flags \ {NETR_NEGO_SECURE_RPC_FLAG}
    ELSE netr_server_auth2_flags

\* Failure inputs of the two netr_gen_credentials calls
Auth2CredFail == { "none", "client_des1", "client_des2", "server_des1",
                   "server_des2" }

ClientCredFail(cf) ==
    CASE cf = "client_des1" -> "des1"
      [] cf = "client_des2" -> "des2"
      [] OTHER -> "none"

ServerCredFail(cf) ==
    CASE cf = "server_des1" -> "des1"
      [] cf = "server_des2" -> "des2"
      [] OTHER -> "none"

\* The operators below return [rc, info, skey, flags]: rc = 0 means the
\* request goes out, info is the netr_info_t left behind, skey the key
\* derivation's result and flags the request's negotiate_flags.

\* the second netr_gen_credentials call and the memcpy into the request
auth2_server_cred(info, skey, flags, c2) ==
    [rc |-> IF c2.rc # "SMBAUTH_SUCCESS" THEN -1 ELSE 0,
     info |-> [info EXCEPT !.server_credential = c2.cred],
     skey |-> skey, flags |-> flags]

\* the first netr_gen_credentials call
auth2_client_cred(info, skey, flags, cf, c1) ==
    IF c1.rc # "SMBAUTH_SUCCESS"
    THEN [rc |-> -1, info |-> [info EXCEPT !.client_credential = c1.cred],
          skey |-> skey, flags |-> flags]
    ELSE auth2_server_cred(
             [info EXCEPT !.client_credential = c1.cred], skey, flags,
             netr_gen_credentials(info.session_key.key, info.server_challenge,
                                  DW(0), info.server_credential, FALSE,
                                  ServerCredFail(cf)))

\* the test of the key derivation's result
auth2_after_skey(skey, flags, cf) ==
    IF skey.rc # "SMBAUTH_SUCCESS"
    THEN [rc |-> -1, info |-> skey.info, skey |-> skey, flags |-> flags]
    ELSE auth2_client_cred(
             skey.info, skey, flags, cf,
             netr_gen_credentials(skey.info.session_key.key,
                                  skey.info.client_challenge, DW(0),
                                  skey.info.client_credential, FALSE,
                                  ClientCredFail(cf)))

\* the function up to ndr_rpc_call
netr_server_authenticate2_prepare(info, cfg, kf, cf) ==
    auth2_after_skey(
        IF NETR_NEGO_STRONGKEY_FLAG \in auth2_negotiate_flags(info)
        THEN netr_gen_skey128(info, cfg, kf)
        ELSE netr_gen_skey64(info, cfg, kf),
        auth2_negotiate_flags(info), cf)

\* Key derivation failure inputs for the algorithm the request selects
Auth2KeyFail(info) ==
    IF NETR_NEGO_STRONGKEY_FLAG \in auth2_negotiate_flags(info)
    THEN Skey128Fail ELSE Skey64Fail

\* the state after the function's first half, r being its result
Auth2CallEffect(t, info, r) ==
    /\ netr_global_info' = r.info
    /\ l_rc' = [l_rc EXCEPT ![t] = r.rc]
    /\ IF r.rc # 0
       THEN /\ pc' = [pc EXCEPT ![t] = "errout"]
            /\ arg' = arg
            /\ hist' = [hist EXCEPT ![t].key_derived =
                           (r.info.session_key.key # info.session_key.key)]
            /\ nego_hist' = nego_hist
       ELSE /\ pc' = [pc EXCEPT ![t] = "authenticate_wait"]
            /\ arg' = [arg EXCEPT ![t] =
                          [ op |-> "NETR_OPNUM_ServerAuthenticate2",
                            servername |-> r.info.server,
                            hostname |-> r.info.hostname,
                            negotiate_flags |-> r.flags,
                            client_credential |-> r.info.client_credential ]]
            /\ hist' = [hist EXCEPT ![t] =
                           [RpcIssued(@, t) EXCEPT
                               !.key_derived =
                                   (r.info.session_key.key # info.session_key.key)]]
            /\ nego_hist' = [nego_hist EXCEPT !.proposed = r.flags]

NetrServerAuthenticate2Call(t, cfg, kf, cf) ==
    /\ pc[t] = "authenticate"
    /\ kf \in Auth2KeyFail(netr_global_info)
    /\ (cfg.rc # "SMBD_SMF_OK" \/ cfg.value[1] = 0) => (kf = "none" /\ cf = "none")
    /\ kf # "none" => cf = "none"
    /\ Auth2CallEffect(t, netr_global_info,
           netr_server_authenticate2_prepare(netr_global_info, cfg, kf, cf))
    /\ UNCHANGED << auth_verify_resp, auth_context_id, started,
                    enabled, l_flags, l_status, netr_handle, attempts, probe >>

\* Credentials a server may return: the value the client expects, or not
ServerCredentials(info) ==
    { info.server_credential,
      Tup([i \in 1..NETR_CRED_DATA_SZ |-> 255], NETR_CRED_DATA_SZ) }

\* negotiate_flags values a server may return
ServerFlags ==
    { {NETR_NEGO_BASE_FLAGS} \cup x :
          x \in SUBSET {NETR_NEGO_STRONGKEY_FLAG, NETR_NEGO_SECURE_RPC_FLAG} }

\* a variant that keeps the flags of the request
auth2_store_nego_proposed(returned, proposed) == proposed

\* netr_info->nego_flags = arg.negotiate_flags, after the call
auth2_store_nego(returned, proposed) == returned

\* if (rc == 0) after netr_server_authenticate2
auth2_accepted(r) == r = 0

\* smb_update_netlogon_seqnum(); netr_info->flags |= NETR_FLG_VALID
netlogon_auth_finish(info, r) ==
    IF auth2_accepted(r)
    THEN [info EXCEPT !.flags = @ \cup {NETR_FLG_VALID}]
    ELSE info

\* ndr_rpc_call returns; the rest of netr_server_authenticate2 runs, then
\* netlogon_auth acts on its result
NetrServerAuthenticate2Return(t, outcome, resp_flags, resp_cred) ==
    /\ pc[t] = "authenticate_wait"
    /\ outcome # "ok" => (resp_flags = {} /\ resp_cred = Zeros(NETR_CRED_DATA_SZ))
    /\ outcome = "ok" => (resp_flags \in ServerFlags
                          /\ resp_cred \in ServerCredentials(netr_global_info))
    /\ LET proposed == arg[t].negotiate_flags
           stored == IF outcome = "ok"
                     THEN [netr_global_info EXCEPT
                              !.nego_flags = auth2_store_nego(resp_flags, proposed)]
                     ELSE netr_global_info
           r == IF outcome = "ok"
                THEN memcmp(netr_global_info.server_credential, resp_cred)
                ELSE -1
           res == CASE outcome = "transport" -> "transport"
                    [] outcome = "status" -> "status"
                    [] OTHER -> IF r = 0 THEN "match" ELSE "mismatch"
       IN  /\ netr_global_info' = netlogon_auth_finish(stored, r)
           /\ l_rc' = [l_rc EXCEPT ![t] = r]
           /\ hist' = [hist EXCEPT
                          ![t].auth2 = res,
                          ![t].seqnum_updates = IF auth2_accepted(r) THEN @ + 1
                                                ELSE @,
                          ![t].calls_ok = @ + rpc_call_ok(outcome),
                          ![t].releases = @ + rpc_released(outcome)]
           /\ nego_hist' = IF outcome = "ok"
                           THEN [nego_hist EXCEPT !.has_resp = TRUE,
                                                  !.resp = resp_flags,
                                                  !.binds = {}]
                           ELSE nego_hist
    /\ arg' = [arg EXCEPT ![t] = NoArg]
    /\ pc' = [pc EXCEPT ![t] = "errout"]
    /\ UNCHANGED << auth_verify_resp, auth_context_id, started, enabled, l_flags,
                    l_status, netr_handle, attempts, probe >>

-----------------------------------------------------------------------------
(* netlogon_auth: errout, netr_close and the return value *)

NetlogonAuthClose(t) ==
    /\ pc[t] = "errout"
    /\ netr_handle' = [netr_handle EXCEPT ![t] = "unbound"]
    /\ hist' = [hist EXCEPT ![t].closes = @ + 1]
    /\ l_status' = [l_status EXCEPT ![t] =
                       IF l_rc[t] # 0 THEN "NT_STATUS_UNSUCCESSFUL"
                       ELSE "NT_STATUS_SUCCESS"]
    /\ pc' = [pc EXCEPT ![t] = "ret"]
    /\ UNCHANGED << netr_global_info, auth_verify_resp,
                    auth_context_id, started, enabled, l_flags, l_rc, arg,
                    nego_hist, attempts, probe >>

-----------------------------------------------------------------------------
(* netr_open_secure *)

\* the bind netr_open_secure chooses
open_secure_kind(nego_flags) ==
    IF (nego_flags \cap {NETR_NEGO_SECURE_RPC_FLAG}) # {}
    THEN "ndr_rpc_bind_secure" ELSE "ndr_rpc_bind"

NetrOpenSecure(t) ==
    /\ t \in enabled
    /\ pc[t] \in {"idle", "ret"}
    /\ auth_context_id <= MaxCtxId
    /\ started' = TRUE
    /\ LET kind == open_secure_kind(netr_global_info.nego_flags)
       IN  /\ auth_context_id' = IF kind = "ndr_rpc_bind_secure"
                                 THEN auth_context_id + 1 ELSE auth_context_id
           /\ nego_hist' = [nego_hist EXCEPT !.binds = @ \cup {kind}]
    /\ UNCHANGED << netr_global_info, auth_verify_resp, enabled,
                    pc, l_flags, l_rc, l_status, netr_handle, arg, hist,
                    attempts, probe >>

-----------------------------------------------------------------------------
(* netr_gen_password and netr_server_password_set *)

PasswordFail == { "none", "des1", "des2" }

\* Result: [rc, new_password]; new_password is a local of the caller that
\* nothing reads unless both passes succeeded (held as zero until written)
netr_gen_password(session_key, old_password, fail) ==
    CASE fail = "des1" ->
            [rc |-> "SMBAUTH_FAILURE", new_password |-> Zeros(NETR_OWF_PASSWORD_SZ)]
      [] fail = "des2" ->
            [rc |-> "SMBAUTH_FAILURE",
             new_password |->
                 smb_auth_DES(Slice(session_key, 0, NETR_DESKEY_LEN),
                              Slice(old_password, 0, 8))
                 \o Zeros(8)]
      [] OTHER ->
            [rc |-> "SMBAUTH_SUCCESS",
             new_password |->
                 smb_auth_DES(Slice(session_key, 0, NETR_DESKEY_LEN),
                              Slice(old_password, 0, 8))
                 \o smb_auth_DES(Slice(session_key, NETR_DESKEY_LEN,
                                       NETR_DESKEY_LEN),
                                 Slice(old_password, 8, 8))]

\* Timestamps netr_setup_authenticator may stamp the request with
AuthTimestamps == { DW(1) }

\* netr_setup_authenticator(netr_info, &arg.auth, 0), defined in
\* netr_logon.c: the request authenticator is the credential generated
\* from the stored client credential and the timestamp, with retry allowed
netr_setup_authenticator(info, ts) ==
    netr_gen_credentials(info.session_key.key, info.client_credential, ts,
                         Zeros(NETR_CRED_DATA_SZ), TRUE, "none")

\* netr_validate_chain(netr_info, &arg.auth), defined in netr_logon.c: on
\* acceptance the rolling seed advances, otherwise nothing changes
netr_validate_chain(info, accepted, ts) ==
    IF accepted
    THEN [info EXCEPT !.client_credential =
                          cred_input(info.client_credential, ts)]
    ELSE info

\* a variant that saves the new password whatever the chain check says
password_set_commit_unchecked(status) == TRUE

\* if (netr_validate_chain(netr_info, &arg.auth) == 0)
password_set_commit(status) == status = 0

\* memcpy(netr_info->password, new_password, NETR_OWF_PASSWORD_SZ)
password_set_save(info, new_password) ==
    [info EXCEPT !.password =
        new_password \o Slice(@, NETR_OWF_PASSWORD_SZ,
                              MaxPasswordLen - NETR_OWF_PASSWORD_SZ)]

\* The probe cell while netr_server_password_set calls are observed: info
\* is the netr_info_t at entry of the latest call, out.info the one at its
\* return, out.hash its new_password, fail the stage the call reached
PasswordSetProbe == [NoProbe EXCEPT !.kind = "netr_server_password_set"]

\* the function up to ndr_rpc_call
NetrServerPasswordSetCall(t, ts, af, pf) ==
    /\ probe.kind = "netr_server_password_set"
    /\ probe.n < MaxPasswordSets
    /\ t \in enabled
    /\ pc[t] \in {"idle", "ret"}
    /\ af => pf = "none"
    /\ LET auth == netr_setup_authenticator(netr_global_info, ts)
           gen == netr_gen_password(netr_global_info.session_key.key,
                                    netr_global_info.password, pf)
           stage == CASE af \/ auth.rc # "SMBAUTH_SUCCESS" -> "setup_failed"
                      [] gen.rc = "SMBAUTH_FAILURE" -> "password_failed"
                      [] OTHER -> "sent"
       IN  /\ probe' = [probe EXCEPT
                           !.info = netr_global_info,
                           !.n = @ + 1,
                           !.fail = stage,
                           !.done = (stage # "sent"),
                           !.out = [NoOut EXCEPT
                                    !.rc = IF stage = "sent" THEN "none" ELSE "-1",
                                    !.info = netr_global_info,
                                    !.rpc_calls = IF stage = "sent" THEN 1 ELSE 0,
                                    !.hash = IF stage = "setup_failed"
                                             THEN Zeros(NETR_OWF_PASSWORD_SZ)
                                             ELSE gen.new_password]]
           /\ IF stage = "sent"
              THEN /\ arg' = [arg EXCEPT ![t] =
                                 [ op |-> "NETR_OPNUM_ServerPasswordSet",
                                   servername |-> netr_global_info.server,
                                   hostname |-> netr_global_info.hostname,
                                   auth |-> [credential |-> auth.cred,
                                             timestamp |-> ts],
                                   owf_password |-> gen.new_password ]]
                   /\ pc' = [pc EXCEPT ![t] = "password_set_wait"]
              ELSE UNCHANGED << arg, pc >>
    /\ started' = TRUE
    /\ UNCHANGED << netr_global_info, auth_verify_resp, auth_context_id, enabled,
                    l_flags, l_rc, l_status, netr_handle, hist, nego_hist,
                    attempts >>

\* ndr_rpc_call returns; the rest of the function runs
NetrServerPasswordSetReturn(t, outcome, accepted) ==
    /\ pc[t] = "password_set_wait"
    /\ outcome # "ok" => ~accepted
    /\ LET stage == CASE outcome = "transport" -> "transport"
                      [] outcome = "status" -> "status"
                      [] accepted -> "chain_accepted"
                      [] OTHER -> "chain_rejected"
           checked == IF outcome = "ok"
                      THEN netr_validate_chain(netr_global_info, accepted,
                                               arg[t].auth.timestamp)
                      ELSE netr_global_info
           after == IF outcome = "ok"
                       /\ password_set_commit(IF accepted THEN 0 ELSE 1)
                    THEN password_set_save(checked, arg[t].owf_password)
                    ELSE checked
       IN  /\ netr_global_info' = after
           /\ probe' = [probe EXCEPT
                           !.fail = stage,
                           !.done = TRUE,
                           !.out.rc = IF outcome = "ok" THEN "0" ELSE "-1",
                           !.out.rpc_ok = rpc_call_ok(outcome),
                           !.out.rpc_releases = rpc_released(outcome),
                           !.out.info = after]
    /\ arg' = [arg EXCEPT ![t] = NoArg]
    /\ pc' = [pc EXCEPT ![t] = "ret"]
    /\ UNCHANGED << auth_verify_resp, auth_context_id, started, enabled,
                    l_flags, l_rc, l_status, netr_handle, hist, nego_hist,
                    attempts >>

\* netlogon_auth attempts with every local step succeeding, and
\* netr_server_password_set calls between them
InitPasswordSet ==
    /\ InitCommon
    /\ enabled = {1}
    /\ probe = PasswordSetProbe

StoredPasswd == [rc |-> "SMBD_SMF_OK", value |-> MachinePasswd]

NextPasswordSet ==
    \/ \E t \in Threads, st \in BindStatus : NetlogonAuthOpen(t, {}, st)
    \/ \E t \in Threads : NetlogonAuthSetup(t, "none")
    \/ \E t \in Threads, w0 \in RandWords, w1 \in RandWords :
          NetlogonAuthChallenge(t, w0, w1)
    \/ \E t \in Threads : NetrServerReqChallengeCall(t)
    \/ \E t \in Threads, outcome \in RpcOutcome,
          sc \in ServerChallenges \cup {Zeros(NETR_CRED_DATA_SZ)} :
          NetrServerReqChallengeReturn(t, outcome, sc)
    \/ \E t \in Threads : NetrServerAuthenticate2Call(t, StoredPasswd, "none", "none")
    \/ \E t \in Threads, outcome \in RpcOutcome,
          rf \in {netr_server_auth2_flags, {}},
          cr \in ServerCredentials(netr_global_info) \cup {Zeros(NETR_CRED_DATA_SZ)} :
          NetrServerAuthenticate2Return(t, outcome, rf, cr)
    \/ \E t \in Threads : NetlogonAuthClose(t)
    \/ \E t \in Threads, ts \in AuthTimestamps, af \in BOOLEAN, pf \in PasswordFail :
          NetrServerPasswordSetCall(t, ts, af, pf)
    \/ \E t \in Threads, outcome \in RpcOutcome, accepted \in BOOLEAN :
          NetrServerPasswordSetReturn(t, outcome, accepted)

SpecPasswordSet == InitPasswordSet /\ [][NextPasswordSet]_vars

-----------------------------------------------------------------------------
(* Two threads inside netlogon_auth at once.  The file takes no lock       *)
(* around netr_global_info, so the steps of the two calls interleave at    *)
(* will.  Every local step succeeds and every RPC gets an answer.          *)

InitConcurrent ==
    /\ InitCommon
    /\ enabled = Threads
    /\ probe = NoProbe

NextConcurrent ==
    \/ \E t \in Threads : NetlogonAuthOpen(t, {}, "NT_STATUS_SUCCESS")
    \/ \E t \in Threads : NetlogonAuthSetup(t, "none")
    \/ \E t \in Threads, w0 \in RandWords, w1 \in RandWords :
          NetlogonAuthChallenge(t, w0, w1)
    \/ \E t \in Threads : NetrServerReqChallengeCall(t)
    \/ \E t \in Threads, sc \in ServerChallenges :
          NetrServerReqChallengeReturn(t, "ok", sc)
    \/ \E t \in Threads : NetrServerAuthenticate2Call(t, StoredPasswd, "none", "none")
    \/ \E t \in Threads, cr \in ServerCredentials(netr_global_info) :
          NetrServerAuthenticate2Return(t, "ok", netr_server_auth2_flags, cr)
    \/ \E t \in Threads : NetlogonAuthClose(t)

SpecConcurrent == InitConcurrent /\ [][NextConcurrent]_vars

-----------------------------------------------------------------------------
(* Function-level calls: each function applied once to an input drawn by   *)
(* the initial state.                                                      *)

protocol_vars ==
    << netr_global_info, auth_verify_resp, auth_context_id, started, enabled,
       pc, l_flags, l_rc, l_status, netr_handle, arg, hist, nego_hist, attempts >>

\* 8-byte buffers handed to passes_dc_mitigation
MitigationInputs ==
    { [NoProbe EXCEPT !.kind = "passes_dc_mitigation",
                      !.buf = Tup(b, NETR_CRED_DATA_SZ)] :
          b \in [1..NETR_CRED_DATA_SZ -> 0..MaxByte] }

\* Challenges held by the netr_info_t handed to the key derivations
DeriveChallenges ==
    { LE_OUT32(DW(a)) \o LE_OUT32(DW(b)) : a \in 0..MaxByte, b \in 0..MaxByte }

Skey128Inputs ==
    { [NoProbe EXCEPT !.kind = "netr_gen_skey128",
                      !.info = [InitInfo EXCEPT !.client_challenge = cc,
                                                !.server_challenge = sc],
                      !.cfg = cfg, !.fail = f] :
          cc \in DeriveChallenges, sc \in DeriveChallenges,
          cfg \in CfgResults, f \in Skey128Fail }

Skey64Inputs ==
    { [NoProbe EXCEPT !.kind = "netr_gen_skey64",
                      !.info = [InitInfo EXCEPT !.client_challenge = cc,
                                                !.server_challenge = sc],
                      !.cfg = cfg, !.fail = f] :
          cc \in DeriveChallenges, sc \in DeriveChallenges,
          cfg \in CfgResults, f \in Skey64Fail }

\* First and second words of the challenges handed to
\* netr_gen_credentials: small values, a full low half and a full word
CredWords == { DW(0), DW(MaxByte), DW(65535), [lo |-> 65535, hi |-> 65535] }

CredTimestamps == { DW(0), DW(1), DW(65535) }

\* Session keys: all zero, and one under which an all-zero cipher input
\* yields a credential whose first five bytes are all equal
CredKeys ==
    { Zeros(NETR_SESSKEY128_SZ),
      << 0, 0, 0, 0, 0, 0, 0, 253, 251, 249, 247, 245, 0, 0, 0, 0 >> }

\* Contents of out_cred before the call
CredOld == { Zeros(NETR_CRED_DATA_SZ), << 1, 2, 3, 4, 5, 6, 7, 8 >> }

\* info.session_key.key is the session_key argument, info.client_credential
\* the out_cred argument, buf the challenge argument
CredInputs ==
    { [NoProbe EXCEPT !.kind = "netr_gen_credentials",
                      !.buf = LE_OUT32(w0) \o LE_OUT32(w1),
                      !.info = [InitInfo EXCEPT !.session_key.key = k,
                                                !.client_credential = old],
                      !.timestamp = ts, !.retry = r, !.fail = f] :
          w0 \in CredWords, w1 \in CredWords, k \in CredKeys, old \in CredOld,
          ts \in CredTimestamps, r \in BOOLEAN, f \in CredFail }

InitFunctions ==
    /\ InitCommon
    /\ enabled = {}
    /\ probe \in MitigationInputs \cup Skey128Inputs \cup Skey64Inputs
                \cup CredInputs

PassesDcMitigationCall ==
    /\ probe.kind = "passes_dc_mitigation"
    /\ ~probe.done
    /\ probe' = [probe EXCEPT !.done = TRUE,
                              !.out.pass = passes_dc_mitigation(probe.buf)]
    /\ UNCHANGED protocol_vars

\* the probe cell after a key derivation returned r
SkeyReturned(r) ==
    [probe EXCEPT !.done = TRUE,
                  !.out = [NoOut EXCEPT !.rc = r.rc, !.info = r.info,
                                        !.hash = r.hash]]

NetrGenSkey128Call ==
    /\ probe.kind = "netr_gen_skey128"
    /\ ~probe.done
    /\ probe' = SkeyReturned(netr_gen_skey128(probe.info, probe.cfg, probe.fail))
    /\ UNCHANGED protocol_vars

NetrGenSkey64Call ==
    /\ probe.kind = "netr_gen_skey64"
    /\ ~probe.done
    /\ probe' = SkeyReturned(netr_gen_skey64(probe.info, probe.cfg, probe.fail))
    /\ UNCHANGED protocol_vars

\* the probe cell after netr_gen_credentials returned r
CredReturned(r) ==
    [probe EXCEPT !.done = TRUE,
                  !.out = [NoOut EXCEPT
                              !.rc = r.rc,
                              !.info = [probe.info EXCEPT
                                           !.client_credential = r.cred],
                              !.le_data = cred_input(probe.buf, probe.timestamp),
                              !.des_calls = cred_des_calls(probe.fail),
                              !.challenge = probe.buf]]

NetrGenCredentialsCall ==
    /\ probe.kind = "netr_gen_credentials"
    /\ ~probe.done
    /\ probe' = CredReturned(
                    netr_gen_credentials(probe.info.session_key.key, probe.buf,
                                         probe.timestamp,
                                         probe.info.client_credential,
                                         probe.retry, probe.fail))
    /\ UNCHANGED protocol_vars

NextFunctions ==
    \/ PassesDcMitigationCall
    \/ NetrGenSkey128Call
    \/ NetrGenSkey64Call
    \/ NetrGenCredentialsCall

SpecFunctions == InitFunctions /\ [][NextFunctions]_vars

-----------------------------------------------------------------------------
(* The program *)

Next ==
    \/ \E flags \in CfgFlagArgs : NetlogonInitGlobal(flags)
    \/ \E t \in Threads, flags \in FlagArgs, st \in BindStatus :
          NetlogonAuthOpen(t, flags, st)
    \/ \E t \in Threads, lf \in LookupFail : NetlogonAuthSetup(t, lf)
    \/ \E t \in Threads, w0 \in RandWords, w1 \in RandWords :
          NetlogonAuthChallenge(t, w0, w1)
    \/ \E t \in Threads : NetrServerReqChallengeCall(t)
    \/ \E t \in Threads, outcome \in RpcOutcome,
          sc \in ServerChallenges \cup {Zeros(NETR_CRED_DATA_SZ)} :
          NetrServerReqChallengeReturn(t, outcome, sc)
    \/ \E t \in Threads, cfg \in CfgResults, kf \in Skey128Fail \cup Skey64Fail,
          cf \in Auth2CredFail :
          NetrServerAuthenticate2Call(t, cfg, kf, cf)
    \/ \E t \in Threads, outcome \in RpcOutcome, rf \in ServerFlags \cup {{}},
          cr \in ServerCredentials(netr_global_info) \cup {Zeros(NETR_CRED_DATA_SZ)} :
          NetrServerAuthenticate2Return(t, outcome, rf, cr)
    \/ \E t \in Threads : NetlogonAuthClose(t)
    \/ \E t \in Threads : NetrOpenSecure(t)

Spec == Init /\ [][Next]_vars

\* arc4random() hands the loop a pair of words that passes the mitigation
ChallengePassingDrawn(t) ==
    \E w0 \in RandWords, w1 \in RandWords :
        /\ passes_dc_mitigation(LE_OUT32(w0) \o LE_OUT32(w1))
        /\ NetlogonAuthChallenge(t, w0, w1)

\* One thread calling netlogon_auth again and again; after the loop the
\* machine password is readable and the local cryptography succeeds
NextFair ==
    \/ \E flags \in CfgFlagArgs : NetlogonInitGlobal(flags)
    \/ \E flags \in FlagArgs, st \in BindStatus : NetlogonAuthOpen(1, flags, st)
    \/ \E lf \in LookupFail : NetlogonAuthSetup(1, lf)
    \/ \E w0 \in RandWords, w1 \in RandWords : NetlogonAuthChallenge(1, w0, w1)
    \/ NetrServerReqChallengeCall(1)
    \/ \E outcome \in RpcOutcome,
          sc \in ServerChallenges \cup {Zeros(NETR_CRED_DATA_SZ)} :
          NetrServerReqChallengeReturn(1, outcome, sc)
    \/ NetrServerAuthenticate2Call(1, StoredPasswd, "none", "none")
    \/ \E outcome \in RpcOutcome,
          cr \in ServerCredentials(netr_global_info) \cup {Zeros(NETR_CRED_DATA_SZ)} :
          NetrServerAuthenticate2Return(1, outcome, netr_server_auth2_flags, cr)
    \/ NetlogonAuthClose(1)
    \/ NetrOpenSecure(1)

\* The program under a fair random source: a thread inside the loop is
\* eventually handed a passing pair, and a thread that left the loop goes
\* on to make its call
SpecFair ==
    /\ Init
    /\ [][NextFair]_vars
    /\ WF_vars(ChallengePassingDrawn(1))
    /\ WF_vars(NetrServerReqChallengeCall(1))

-----------------------------------------------------------------------------
(* Properties *)

SUCCESS == "NT_STATUS_SUCCESS"

\* C1: once netlogon_auth has reset the shared state, NETR_FLG_VALID is in
\* netr_global_info.flags only if the ServerAuthenticate2 exchange of this
\* attempt returned status 0 and the expected server credential, and the
\* netlogon sequence number is updated only in that case.
C1_EstablishedOnlyAfterMatch ==
    \A t \in enabled :
        (hist[t].opened /\ pc[t] # "setup") =>
            /\ NETR_FLG_VALID \in netr_global_info.flags
                  => hist[t].auth2 = "match"
            /\ hist[t].seqnum_updates > 0 => hist[t].auth2 = "match"

\* C2: when netlogon_auth returns a status other than success the shared
\* state does not carry NETR_FLG_VALID, and it returns success only after
\* the server credential matched.
C2_FailureLeavesNotEstablished ==
    \A t \in enabled :
        pc[t] = "ret" =>
            /\ l_status[t] # SUCCESS
                  => NETR_FLG_VALID \notin netr_global_info.flags
            /\ l_status[t] = SUCCESS => hist[t].auth2 = "match"

\* C3: when netlogon_auth returns a status other than success after a
\* session key was derived in the attempt, or after a bind failure that
\* follows an established session, session_key is all zero.
C3_FailureLeavesNoKey ==
    \A t \in enabled :
        ( /\ pc[t] = "ret"
          /\ l_status[t] # SUCCESS
          /\ \/ hist[t].key_derived
             \/ (~hist[t].opened /\ hist[t].prior_valid) ) =>
            netr_global_info.session_key =
                [key |-> Zeros(NETR_SESSKEY128_SZ), len |-> 0]

\* C4: netr_gen_skey128 returns SMBAUTH_FAILURE whenever a primitive step
\* fails, and returns SMBAUTH_SUCCESS only with the 16-byte key written.
C4_Skey128FailsOnAnyStep ==
    (probe.kind = "netr_gen_skey128" /\ probe.done) =>
        /\ probe.fail # "none" => probe.out.rc = "SMBAUTH_FAILURE"
        /\ probe.out.rc = "SMBAUTH_SUCCESS" =>
              probe.out.info.session_key =
                  [key |-> smb_auth_hmac_md5(
                               md5_digest(Zeros(NETR_SESSKEY_ZEROBUF_SZ),
                                          probe.info.client_challenge,
                                          probe.info.server_challenge),
                               smb_auth_ntlm_hash(probe.cfg.value)),
                   len |-> NETR_SESSKEY128_SZ]

\* C5: when netr_gen_skey128 or netr_gen_skey64 returns, on any path,
\* netr_info->password and the local password hash buffer are all zero.
C5_PasswordAndHashWiped ==
    (probe.kind \in {"netr_gen_skey128", "netr_gen_skey64"} /\ probe.done) =>
        /\ probe.out.info.password = Zeros(MaxPasswordLen)
        /\ Len(probe.out.hash) = IF probe.kind = "netr_gen_skey128"
                                 THEN SMBAUTH_HASH_SZ ELSE MD4HASH_SZ
        /\ \A i \in 1..Len(probe.out.hash) : probe.out.hash[i] = 0

\* netr_gen_skey128 went through every step with a stored password
C5_Witness ==
    /\ probe.kind = "netr_gen_skey128"
    /\ probe.done
    /\ probe.cfg.value = MachinePasswd
    /\ probe.fail = "none"
    /\ probe.out.rc = "SMBAUTH_SUCCESS"
    /\ probe.out.info.session_key.len = NETR_SESSKEY128_SZ

\* C6: if the request proposed strong-key and secure-RPC and the last
\* status-0 response omitted secure-RPC, the stored nego_flags omit it and
\* no netr_open_secure call since that response used ndr_rpc_bind_secure.
C6_ServerOmitsSecureRpc ==
    ( /\ nego_hist.has_resp
      /\ {NETR_NEGO_STRONGKEY_FLAG, NETR_NEGO_SECURE_RPC_FLAG}
            \subseteq nego_hist.proposed
      /\ NETR_NEGO_SECURE_RPC_FLAG \notin nego_hist.resp ) =>
        /\ NETR_NEGO_SECURE_RPC_FLAG \notin netr_global_info.nego_flags
        /\ "ndr_rpc_bind_secure" \notin nego_hist.binds

\* such a response arrived and netr_open_secure was called after it
C6_Witness ==
    /\ nego_hist.has_resp
    /\ {NETR_NEGO_STRONGKEY_FLAG, NETR_NEGO_SECURE_RPC_FLAG}
          \subseteq nego_hist.proposed
    /\ NETR_NEGO_SECURE_RPC_FLAG \notin nego_hist.resp
    /\ nego_hist.binds = {"ndr_rpc_bind"}

\* C7: the stored nego_flags are a subset of the flags of the request, and
\* with use_secure_rpc false they never hold the secure-RPC flag and
\* netr_open_secure never binds with ndr_rpc_bind_secure.
C7_NegotiatedWithinProposal ==
    /\ nego_hist.has_resp =>
          netr_global_info.nego_flags \subseteq nego_hist.proposed
    /\ ~netr_global_info.use_secure_rpc =>
          /\ NETR_NEGO_SECURE_RPC_FLAG \notin netr_global_info.nego_flags
          /\ "ndr_rpc_bind_secure" \notin nego_hist.binds

\* C8: passes_dc_mitigation is true exactly when one of the first 5 bytes
\* differs from the other 4.  The right-hand side reads bytes 0..4 only and
\* the inputs range over every value of bytes 5..7, so those never matter.
C8_MitigationIffUniqueByte ==
    (probe.kind = "passes_dc_mitigation" /\ probe.done) =>
        probe.out.pass =
            (\E i \in 1..MITIGATION_BYTES :
                \A j \in (1..MITIGATION_BYTES) \ {i} :
                    probe.buf[i] # probe.buf[j])

\* a pair plus a triple in the first 5 bytes, with other bytes after them
C8_Witness ==
    /\ probe.kind = "passes_dc_mitigation"
    /\ probe.done
    /\ ~probe.out.pass
    /\ probe.buf[1] = probe.buf[2]
    /\ probe.buf[3] = probe.buf[4]
    /\ probe.buf[4] = probe.buf[5]
    /\ probe.buf[1] # probe.buf[3]
    /\ probe.buf[6] # probe.buf[1]
    /\ probe.buf[6] # probe.buf[3]

\* C9: the client challenge of every ServerReqChallenge request, and the
\* one held for key and credential derivation, passes the mitigation.
C9_SentChallengePassesMitigation ==
    \A t \in enabled :
        /\ hist[t].challenge_sent => passes_dc_mitigation(hist[t].sent_challenge)
        /\ arg[t].op = "NETR_OPNUM_ServerReqChallenge"
              => passes_dc_mitigation(arg[t].client_challenge)
        /\ pc[t] \in {"req_challenge", "req_challenge_wait", "authenticate"}
              => passes_dc_mitigation(netr_global_info.client_challenge)
        /\ pc[t] = "authenticate"
              => netr_global_info.client_challenge = hist[t].sent_challenge

\* a challenge went out and the derivations have used it
C9_Witness ==
    \E t \in enabled :
        /\ pc[t] = "authenticate_wait"
        /\ hist[t].challenge_sent
        /\ hist[t].key_derived
        /\ hist[t].sent_challenge = netr_global_info.client_challenge

\* C10: when netlogon_auth returns after netr_open succeeded, netr_close
\* ran exactly once; no ndr_rpc_call goes out on a handle that is not
\* bound; when netr_open failed there is no close and no call.
C10_ClosedExactlyOnce ==
    \A t \in enabled :
        /\ ~hist[t].call_unbound
        /\ hist[t].closes <= 1
        /\ hist[t].closes = 1 => pc[t] = "ret"
        /\ pc[t] = "ret" =>
              IF hist[t].opened
              THEN hist[t].closes = 1 /\ netr_handle[t] = "unbound"
              ELSE hist[t].closes = 0 /\ hist[t].calls = 0

\* netlogon_auth returned after a credential mismatch
C10_Witness ==
    \E t \in enabled :
        /\ pc[t] = "ret"
        /\ hist[t].opened
        /\ hist[t].auth2 = "mismatch"
        /\ hist[t].calls = 2
        /\ hist[t].closes = 1

\* C11: within an attempt, key derivation, credential generation and the
\* ServerAuthenticate2 request happen only after a client challenge was
\* generated and sent and the ServerReqChallenge call of the attempt
\* returned status 0 and stored the server challenge; each of the two
\* requests goes out at most once.
C11_ExchangesInOrder ==
    \A t \in enabled :
        /\ ( \/ pc[t] \in {"authenticate", "authenticate_wait"}
             \/ hist[t].key_derived
             \/ hist[t].auth2 # "none"
             \/ arg[t].op = "NETR_OPNUM_ServerAuthenticate2" ) =>
               /\ hist[t].challenge_sent
               /\ hist[t].challenge_ok
               /\ passes_dc_mitigation(hist[t].sent_challenge)
               /\ netr_global_info.client_challenge = hist[t].sent_challenge
               /\ netr_global_info.server_challenge \in ServerChallenges
        /\ hist[t].calls =
              (IF hist[t].challenge_sent THEN 1 ELSE 0)
              + (IF pc[t] = "authenticate_wait" \/ hist[t].auth2 # "none"
                 THEN 1 ELSE 0)
        /\ hist[t].calls > 0 => hist[t].opened

\* the ServerAuthenticate2 request is in flight, after the first exchange
C11_Witness ==
    \E t \in enabled :
        /\ pc[t] = "authenticate_wait"
        /\ arg[t].op = "NETR_OPNUM_ServerAuthenticate2"
        /\ hist[t].challenge_ok
        /\ hist[t].key_derived
        /\ hist[t].calls = 2

\* C12: netr_server_password_set derives a new password and sends a
\* ServerPasswordSet request only when the session state it is handed is
\* established (NETR_FLG_VALID set).
C12_PasswordSetOnlyWhenEstablished ==
    /\ \A t \in enabled :
          arg[t].op = "NETR_OPNUM_ServerPasswordSet"
              => NETR_FLG_VALID \in netr_global_info.flags
    /\ ( /\ probe.kind = "netr_server_password_set"
         /\ probe.n > 0
         /\ probe.fail # "setup_failed" )
            => NETR_FLG_VALID \in probe.info.flags

C20_OldPasswordIsTrustPassword ==
    ( /\ probe.kind = "netr_server_password_set"
      /\ probe.n > 0
      /\ probe.fail # "setup_failed"
      /\ NETR_FLG_VALID \in probe.info.flags )
        => probe.info.password = MachinePasswd

\* C14: when the session is established after a matched exchange, the
\* session key has the 128-bit length exactly when the stored nego_flags
\* hold the strong-key flag, and the 64-bit length otherwise.
C14_KeyLengthAgreesWithNegotiation ==
    \A t \in enabled :
        ( /\ NETR_FLG_VALID \in netr_global_info.flags
          /\ hist[t].auth2 = "match" ) =>
            IF NETR_NEGO_STRONGKEY_FLAG \in netr_global_info.nego_flags
            THEN netr_global_info.session_key.len = NETR_SESSKEY128_SZ
            ELSE netr_global_info.session_key.len = NETR_SESSKEY64_SZ

\* the credential netr_gen_credentials yields for a key and a challenge
\* with timestamp 0
CredentialOf(key, challenge) ==
    netr_gen_credentials(key, challenge, DW(0), Zeros(NETR_CRED_DATA_SZ),
                         FALSE, "none").cred

\* C15: while a ServerAuthenticate2 request is in flight and whenever
\* NETR_FLG_VALID is set, the stored client and server credentials are the
\* ones generated from the stored session key and the stored challenges.
C15_CredentialsFromStoredKey ==
    \A t \in enabled :
        (pc[t] = "authenticate_wait"
         \/ NETR_FLG_VALID \in netr_global_info.flags) =>
            /\ netr_global_info.client_credential =
                  CredentialOf(netr_global_info.session_key.key,
                               netr_global_info.client_challenge)
            /\ netr_global_info.server_credential =
                  CredentialOf(netr_global_info.session_key.key,
                               netr_global_info.server_challenge)

\* C16: with two netlogon_auth calls running at once, a call whose
\* exchange matched marks the session established with the challenges it
\* sent and received still stored, and with a session key and credentials
\* derived from them.
C16_AttemptsSerialized ==
    \A t \in enabled :
        (pc[t] = "errout" /\ hist[t].auth2 = "match") =>
            /\ netr_global_info.client_challenge = hist[t].sent_challenge
            /\ netr_global_info.server_challenge = hist[t].recv_challenge
            /\ netr_global_info.session_key.key =
                  smb_auth_hmac_md5(
                      md5_digest(Zeros(NETR_SESSKEY_ZEROBUF_SZ),
                                 hist[t].sent_challenge,
                                 hist[t].recv_challenge),
                      smb_auth_ntlm_hash(MachinePasswd))
            /\ netr_global_info.client_credential =
                  CredentialOf(netr_global_info.session_key.key,
                               hist[t].sent_challenge)
            /\ netr_global_info.server_credential =
                  CredentialOf(netr_global_info.session_key.key,
                               hist[t].recv_challenge)

\* C17: netr_gen_credentials returns SMBAUTH_FAILURE whenever one of the
\* two smb_auth_DES calls fails, whatever retry is; it returns
\* SMBAUTH_RETRY only when retry is set, both calls succeeded and the
\* output fails passes_dc_mitigation; it makes at most two cipher calls.
C17_CredentialReturnValues ==
    (probe.kind = "netr_gen_credentials" /\ probe.done) =>
        /\ probe.fail # "none" => probe.out.rc = "SMBAUTH_FAILURE"
        /\ probe.out.rc = "SMBAUTH_RETRY" =>
              /\ probe.retry
              /\ probe.fail = "none"
              /\ ~passes_dc_mitigation(probe.out.info.client_credential)
        /\ probe.out.des_calls <= 2

\* the first word of the challenge plus the timestamp, added byte by byte
\* with the carry rippling through the four bytes and dropped after them
RECURSIVE ripple_add(_, _, _, _)
ripple_add(a, b, i, carry) ==
    IF i > 4 THEN << >>
    ELSE << (a[i] + b[i] + carry) % 256 >>
         \o ripple_add(a, b, i + 1, (a[i] + b[i] + carry) \div 256)

\* C18: the cipher input of netr_gen_credentials is the first
\* little-endian word of the challenge plus the timestamp modulo 2^32,
\* followed by the second word unchanged; the challenge buffer is the same
\* after the call.
C18_CipherInputArithmetic ==
    (probe.kind = "netr_gen_credentials" /\ probe.done) =>
        /\ SubSeq(probe.out.le_data, 1, 4) =
              ripple_add(probe.buf, LE_OUT32(probe.timestamp), 1, 0)
        /\ SubSeq(probe.out.le_data, 5, 8) = SubSeq(probe.buf, 5, 8)
        /\ probe.out.challenge = probe.buf

\* a call whose first word overflows: 0xFFFFFFFF plus a nonzero timestamp
C18_Witness ==
    /\ probe.kind = "netr_gen_credentials"
    /\ probe.done
    /\ SubSeq(probe.buf, 1, 4) = << 255, 255, 255, 255 >>
    /\ probe.timestamp = DW(1)
    /\ SubSeq(probe.out.le_data, 1, 4) = << 0, 0, 0, 0 >>

\* C19: the challenge loop of netlogon_auth terminates under a fair random
\* source: a thread in the loop eventually leaves it and issues the
\* ServerReqChallenge call; while it is in the loop no RPC call has been
\* issued by the attempt and no failure has been recorded.
C19_ChallengeLoopTerminates ==
    /\ [](pc[1] = "challenge" =>
            /\ hist[1].calls = 0
            /\ arg[1] = NoArg
            /\ l_rc[1] = 0)
    /\ (pc[1] = "challenge" ~> pc[1] = "req_challenge_wait")

\* the loop is retrying: the stored challenge is one that fails the
\* mitigation and that only the loop itself can have produced
C19_Witness ==
    /\ pc[1] = "challenge"
    /\ netr_global_info.client_challenge = LE_OUT32(DW(1)) \o LE_OUT32(DW(1))
    /\ ~passes_dc_mitigation(netr_global_info.client_challenge)

\* C21: netr_open_secure binds with ndr_rpc_bind_secure (the only step that
\* advances auth_context_id) only while the session is established by the
\* most recent netlogon_auth attempt: NETR_FLG_VALID is set and that
\* attempt's ServerAuthenticate2 exchange matched.
C21_SecureBindOnlyWhenEstablished ==
    [][auth_context_id' # auth_context_id =>
          /\ NETR_FLG_VALID \in netr_global_info.flags
          /\ hist[1].auth2 = "match"]_vars

\* C22: in netr_server_req_challenge, netr_server_authenticate2 and
\* netr_server_password_set, once the function has returned, the handle
\* has been released exactly once for every ndr_rpc_call that returned 0,
\* whatever the status of the response, and not at all for a call that
\* failed or was never made.
C22_ReleasedOncePerSuccessfulCall ==
    /\ \A t \in enabled :
          /\ hist[t].releases = hist[t].calls_ok
          /\ hist[t].calls_ok <= hist[t].calls
          /\ pc[t] \notin {"req_challenge_wait", "authenticate_wait"} =>
                hist[t].calls_ok + (IF hist[t].challenge_sent
                                       /\ ~hist[t].challenge_ok
                                       /\ hist[t].releases = 0
                                    THEN 1 ELSE 0)
                + (IF hist[t].auth2 = "transport" THEN 1 ELSE 0)
                = hist[t].calls
    /\ probe.kind = "netr_server_password_set" =>
          /\ probe.out.rpc_releases = probe.out.rpc_ok
          /\ probe.out.rpc_ok <= probe.out.rpc_calls
          /\ probe.fail \in {"setup_failed", "password_failed"} =>
                probe.out.rpc_calls = 0 /\ probe.out.rpc_releases = 0
          /\ probe.fail \in {"status", "chain_accepted", "chain_rejected"} =>
                probe.out.rpc_calls = 1 /\ probe.out.rpc_releases = 1
          /\ probe.fail = "transport" =>
                probe.out.rpc_calls = 1 /\ probe.out.rpc_releases = 0

\* all three functions have run: the challenge exchange succeeded, the
\* authenticate exchange was refused with a non-zero status and released,
\* and a password-set request was refused with a non-zero status and
\* released
C22_Witness ==
    /\ hist[1].challenge_ok
    /\ hist[1].auth2 = "status"
    /\ hist[1].calls = 2
    /\ hist[1].releases = 2
    /\ probe.kind = "netr_server_password_set"
    /\ probe.fail = "status"
    /\ probe.out.rpc_releases = 1

====
